---- MODULE Spec2Model ----
(***************************************************************************)
(* Model of the aptos CLI front-end: the Tool dispatcher (crates/aptos/    *)
(* src/lib.rs) and the FundAccount command (crates/aptos/src/account/      *)
(* fund.rs).  One FundAccount execution is a small sequential process; the *)
(* statements of FundAccount::execute are its steps and every `.await` is  *)
(* a suspension point during which the wall clock may advance.             *)
(***************************************************************************)
EXTENDS Integers, Sequences, FiniteSets, TLC

VARIABLES
    now,            \* wall clock, seconds relative to UNIX_EPOCH (negative: before the epoch)
    tool,           \* the Tool variant handed to Tool::execute
    tpc,            \* position of Tool::execute
    path,           \* the execution path the match arm selected
    variantResult,  \* what the selected variant's execution returned
    toolResult,     \* what Tool::execute returned
    cmd,            \* cmd[e]: the FundAccount value execution e consumes
    pc,             \* pc[e]: position of execution e inside FundAccount::execute
    hashes,         \* hashes[e]: local `hashes`
    sys_time,       \* sys_time[e]: local `sys_time`
    rest,           \* rest[e]: the part of `hashes` the for loop has not yet taken
    result,         \* result[e]: what FundAccount::execute returned
    trace           \* trace[e]: the clock reads and network calls of execution e, in order

vars == <<now, tool, tpc, path, variantResult, toolResult,
          cmd, pc, hashes, sys_time, rest, result, trace>>

execVars == <<cmd, pc, hashes, sys_time, rest, result, trace>>
toolVars == <<tool, tpc, path, variantResult, toolResult>>

----------------------------------------------------------------------------
(* Bounds of the model *)

\* the wall clock is followed up to this second
MaxNow == 12
\* a faucet response carries at most this many transaction hashes
MaxIds == 2

(* Program constants *)

\* the grace window added to the clock reading (fund.rs line 53)
Grace == 10

----------------------------------------------------------------------------
(* Values *)

\* the FundAccount executions of the host process; "main" is the one the
\* dispatcher runs
Execs == {"main", "other"}

\* transaction hashes a faucet can return
Ids == {"T1", "T2"}

\* account addresses, as numbers (2748 = 0xABC)
Accounts == {1, 2748}

\* coin amounts (u64)
Coins == {0, 100}

\* profiles: what each one configures
Profiles == {"default", "nofaucet", "norest"}

HasFaucetUrl(profile) == profile # "nofaucet"

HasRestUrl(profile) == profile # "norest"

FaucetUrl(profile) == <<"faucet", profile>>

Commands == [account : Accounts, num_coins : Coins, profile : Profiles]

NoCommand == [account |-> 1, num_coins |-> 0, profile |-> "default"]

\* CliTypedResult<T>
Pending == [kind |-> "Pending"]

Ok(v) == [kind |-> "Ok", value |-> v]

Err(e) == [kind |-> "Err", error |-> e]

\* CliError: its classification and its description
CliError(class, desc) == [class |-> class, desc |-> desc]

IsOk(r) == r.kind = "Ok"

IsErr(r) == r.kind = "Err"

\* all sequences over S of length at most n
RECURSIVE SeqsUpTo(_, _)
SeqsUpTo(S, n) ==
    IF n = 0 THEN {<<>>}
    ELSE LET shorter == SeqsUpTo(S, n - 1)
         IN  shorter \cup {Append(s, x) : s \in {t \in shorter : Len(t) = n - 1}, x \in S}

----------------------------------------------------------------------------
(* Formatting *)

DecDigit(d) == <<"0", "1", "2", "3", "4", "5", "6", "7", "8", "9">>[d + 1]

HexDigit(d) ==
    <<"0", "1", "2", "3", "4", "5", "6", "7", "8", "9", "A", "B", "C", "D", "E", "F">>[d + 1]

\* Display of a u64: its decimal digits, most significant first
RECURSIVE FormatU64(_)
FormatU64(n) ==
    IF n < 10 THEN <<DecDigit(n)>>
    ELSE Append(FormatU64(n \div 10), DecDigit(n % 10))

RECURSIVE HexDigits(_)
HexDigits(n) ==
    IF n < 16 THEN <<HexDigit(n)>>
    ELSE Append(HexDigits(n \div 16), HexDigit(n % 16))

\* Display of an AccountAddress
FormatAddress(a) == <<"0x">> \o HexDigits(a)

\* SuccessMessage with its two arguments exchanged
SuccessMessageSwapped(c) ==
    <<"Added ">> \o FormatU64(c.account) \o <<" coins to account ">>
        \o FormatAddress(c.num_coins)

\* format!("Added {} coins to account {}", self.num_coins, self.account)
SuccessMessage(c) ==
    <<"Added ">> \o FormatU64(c.num_coins) \o <<" coins to account ">>
        \o FormatAddress(c.account)

----------------------------------------------------------------------------
(* The trace of an execution: clock reads and network calls, in order *)

FaucetCallEv(c) ==
    [op |-> "faucet_call", url |-> FaucetUrl(c.profile),
     amount |-> c.num_coins, address |-> c.account]

FaucetRetEv(r) == [op |-> "faucet_ret", out |-> r.kind]

ClockEv(t) == [op |-> "clock", reading |-> t]

\* `expired`: the deadline has already passed when the call is issued at clock reading t
PollCallEv(h, d, t) == [op |-> "poll_call", hash |-> h, deadline |-> d, expired |-> (t >= d)]

PollRetEv(out) == [op |-> "poll_ret", out |-> out]

\* the events of t whose op is in ops, in order
RECURSIVE Select(_, _)
Select(t, ops) ==
    IF t = <<>> THEN <<>>
    ELSE IF Head(t).op \in ops THEN <<Head(t)>> \o Select(Tail(t), ops)
         ELSE Select(Tail(t), ops)

\* the poll (wait_for_transaction_by_hash) calls of execution e, in order
PollCalls(e) == Select(trace[e], {"poll_call"})

\* the hashes polled by execution e, in order
Polled(e) == [i \in 1..Len(PollCalls(e)) |-> PollCalls(e)[i].hash]

FaucetCalls(e) == Select(trace[e], {"faucet_call"})

ClockReads(e) == Select(trace[e], {"clock"})

IsCall(ev) == ev.op \in {"faucet_call", "poll_call"}

IsRet(ev) == ev.op \in {"faucet_ret", "poll_ret"}

\* the number of network calls issued and not yet returned after the first n events
InFlightAt(e, n) ==
    Cardinality({i \in 1..n : IsCall(trace[e][i])})
        - Cardinality({i \in 1..n : IsRet(trace[e][i])})

InFlight(e) == InFlightAt(e, Len(trace[e]))

IsPrefix(s, t) == Len(s) <= Len(t) /\ \A i \in 1..Len(s) : s[i] = t[i]

----------------------------------------------------------------------------
(* FundAccount::execute, statement by statement *)

Finish(e, r) ==
    /\ result' = [result EXCEPT ![e] = r]
    /\ pc' = [pc EXCEPT ![e] = "done"]

\* CallFaucet building the REST client before it requests the funds
CallFaucetClientFirst(e) ==
    /\ pc[e] = "start"
    /\ IF ~HasRestUrl(cmd[e].profile)
       THEN /\ Finish(e, Err(CliError("CommandArgumentError", "rest url")))
            /\ UNCHANGED trace
       ELSE IF HasFaucetUrl(cmd[e].profile)
       THEN /\ trace' = [trace EXCEPT ![e] = Append(@, FaucetCallEv(cmd[e]))]
            /\ pc' = [pc EXCEPT ![e] = "faucet_await"]
            /\ UNCHANGED result
       ELSE /\ Finish(e, Err(CliError("CommandArgumentError", "faucet url")))
            /\ UNCHANGED trace
    /\ UNCHANGED <<now, cmd, hashes, sys_time, rest, toolVars>>

\* CallFaucet requesting the funds whether or not the profile gives a faucet URL
CallFaucetUnresolved(e) ==
    /\ pc[e] = "start"
    /\ trace' = [trace EXCEPT ![e] = Append(@, FaucetCallEv(cmd[e]))]
    /\ pc' = [pc EXCEPT ![e] = "faucet_await"]
    /\ UNCHANGED <<now, cmd, hashes, sys_time, rest, result, toolVars>>

\* lines 42-47: resolve the faucet URL from the profile (`?`) and call fund_account
CallFaucet(e) ==
    /\ pc[e] = "start"
    /\ IF HasFaucetUrl(cmd[e].profile)
       THEN /\ trace' = [trace EXCEPT ![e] = Append(@, FaucetCallEv(cmd[e]))]
            /\ pc' = [pc EXCEPT ![e] = "faucet_await"]
            /\ UNCHANGED result
       ELSE /\ Finish(e, Err(CliError("CommandArgumentError", "faucet url")))
            /\ UNCHANGED trace
    /\ UNCHANGED <<now, cmd, hashes, sys_time, rest, toolVars>>

\* what the faucet client can answer: hashes in submission order, or a failure
FaucetAnswers == {Ok(hs) : hs \in SeqsUpTo(Ids, MaxIds)} \cup {Err(CliError("TransportError", "faucet"))}

\* FaucetReturn taking a failed request for an empty list of hashes
FaucetReturnIgnoreError(e) ==
    /\ pc[e] = "faucet_await"
    /\ \E r \in FaucetAnswers :
          /\ trace' = [trace EXCEPT ![e] = Append(@, FaucetRetEv(r))]
          /\ hashes' = [hashes EXCEPT ![e] = IF IsOk(r) THEN r.value ELSE <<>>]
          /\ pc' = [pc EXCEPT ![e] = "clock"]
    /\ UNCHANGED <<now, cmd, sys_time, rest, result, toolVars>>

\* line 48: `.await?` on fund_account
FaucetReturn(e) ==
    /\ pc[e] = "faucet_await"
    /\ \E r \in FaucetAnswers :
          /\ trace' = [trace EXCEPT ![e] = Append(@, FaucetRetEv(r))]
          /\ IF IsOk(r)
             THEN /\ hashes' = [hashes EXCEPT ![e] = r.value]
                  /\ pc' = [pc EXCEPT ![e] = "clock"]
                  /\ UNCHANGED result
             ELSE /\ Finish(e, r)
                  /\ UNCHANGED hashes
    /\ UNCHANGED <<now, cmd, sys_time, rest, toolVars>>

\* SystemTime::now().duration_since(UNIX_EPOCH): fails before the epoch
DurationSinceEpoch(t) == IF t < 0 THEN Err("SystemTimeError") ELSE Ok(t)

\* ComputeDeadline taking a failed clock read for the epoch
ComputeDeadlineIgnoreFailure(e) ==
    /\ pc[e] = "clock"
    /\ LET d == DurationSinceEpoch(now)
       IN  /\ trace' = [trace EXCEPT ![e] = Append(@, ClockEv(now))]
           /\ sys_time' = [sys_time EXCEPT ![e] = (IF IsOk(d) THEN d.value ELSE 0) + Grace]
           /\ pc' = [pc EXCEPT ![e] = "client"]
    /\ UNCHANGED <<now, cmd, hashes, rest, result, toolVars>>

\* ComputeDeadline keeping the deadline in one place for all executions
ComputeDeadlineShared(e) ==
    /\ pc[e] = "clock"
    /\ LET d == DurationSinceEpoch(now)
       IN  /\ trace' = [trace EXCEPT ![e] = Append(@, ClockEv(now))]
           /\ IF IsOk(d)
              THEN /\ sys_time' = [x \in Execs |-> d.value + Grace]
                   /\ pc' = [pc EXCEPT ![e] = "client"]
                   /\ UNCHANGED result
              ELSE /\ Finish(e, Err(CliError("UnexpectedError", d.error)))
                   /\ UNCHANGED sys_time
    /\ UNCHANGED <<now, cmd, hashes, rest, toolVars>>

\* lines 49-53: sys_time = now since the epoch, in seconds, + 10
ComputeDeadline(e) ==
    /\ pc[e] = "clock"
    /\ LET d == DurationSinceEpoch(now)
       IN  /\ trace' = [trace EXCEPT ![e] = Append(@, ClockEv(now))]
           /\ IF IsOk(d)
              THEN /\ sys_time' = [sys_time EXCEPT ![e] = d.value + Grace]
                   /\ pc' = [pc EXCEPT ![e] = "client"]
                   /\ UNCHANGED result
              ELSE /\ Finish(e, Err(CliError("UnexpectedError", d.error)))
                   /\ UNCHANGED sys_time
    /\ UNCHANGED <<now, cmd, hashes, rest, toolVars>>

\* line 54: build the REST client from the profile (`?`); line 55: enter the loop
BuildClient(e) ==
    /\ pc[e] = "client"
    /\ IF HasRestUrl(cmd[e].profile)
       THEN /\ rest' = [rest EXCEPT ![e] = hashes[e]]
            /\ pc' = [pc EXCEPT ![e] = "loop"]
            /\ UNCHANGED result
       ELSE /\ Finish(e, Err(CliError("CommandArgumentError", "rest url")))
            /\ UNCHANGED rest
    /\ UNCHANGED <<now, cmd, hashes, sys_time, trace, toolVars>>

\* CallPoll iterating `hashes` from the back
CallPollReversed(e) ==
    /\ pc[e] = "loop"
    /\ rest[e] # <<>>
    /\ trace' = [trace EXCEPT ![e] =
                    Append(@, PollCallEv(rest[e][Len(rest[e])], sys_time[e], now))]
    /\ rest' = [rest EXCEPT ![e] = SubSeq(@, 1, Len(@) - 1)]
    /\ pc' = [pc EXCEPT ![e] = "poll_await"]
    /\ UNCHANGED <<now, cmd, hashes, sys_time, result, toolVars>>

\* CallPoll computing a fresh deadline for every hash
CallPollFreshDeadline(e) ==
    /\ pc[e] = "loop"
    /\ rest[e] # <<>>
    /\ trace' = [trace EXCEPT ![e] = Append(@, PollCallEv(Head(rest[e]), now + Grace, now))]
    /\ rest' = [rest EXCEPT ![e] = Tail(@)]
    /\ pc' = [pc EXCEPT ![e] = "poll_await"]
    /\ UNCHANGED <<now, cmd, hashes, sys_time, result, toolVars>>

\* CallPoll not awaiting the poll before it takes the next hash
CallPollNoAwait(e) ==
    /\ pc[e] = "loop"
    /\ rest[e] # <<>>
    /\ trace' = [trace EXCEPT ![e] = Append(@, PollCallEv(Head(rest[e]), sys_time[e], now))]
    /\ rest' = [rest EXCEPT ![e] = Tail(@)]
    /\ pc' = [pc EXCEPT ![e] = IF Tail(rest[e]) = <<>> THEN "poll_await" ELSE "loop"]
    /\ UNCHANGED <<now, cmd, hashes, sys_time, result, toolVars>>

\* lines 55-56: take the next hash and call wait_for_transaction_by_hash(hash, sys_time)
CallPoll(e) ==
    /\ pc[e] = "loop"
    /\ rest[e] # <<>>
    /\ trace' = [trace EXCEPT ![e] = Append(@, PollCallEv(Head(rest[e]), sys_time[e], now))]
    /\ rest' = [rest EXCEPT ![e] = Tail(@)]
    /\ pc' = [pc EXCEPT ![e] = "poll_await"]
    /\ UNCHANGED <<now, cmd, hashes, sys_time, result, toolVars>>

\* what wait_for_transaction_by_hash can answer at clock reading t for a deadline:
\* it confirms or hits a transport failure while the deadline has not passed,
\* and times out once it has
PollAnswers(t, deadline) ==
    IF t < deadline THEN {"Confirmed", "TransportError"} ELSE {"Timeout"}

\* the conversion `?` applies to a failure of the poll
IntoCliError(failure) ==
    IF failure = "Timeout" THEN CliError("TimeoutError", "rest")
    ELSE CliError("TransportError", "rest")

\* the deadline the poll in flight was given
DeadlineInFlight(e) == PollCalls(e)[Len(PollCalls(e))].deadline

\* PollReturn going on to the next hash after a timeout
PollReturnSkipTimeout(e) ==
    /\ pc[e] = "poll_await"
    /\ \E r \in PollAnswers(now, DeadlineInFlight(e)) :
          /\ trace' = [trace EXCEPT ![e] = Append(@, PollRetEv(r))]
          /\ IF r \in {"Confirmed", "Timeout"}
             THEN /\ pc' = [pc EXCEPT ![e] = "loop"]
                  /\ UNCHANGED result
             ELSE Finish(e, Err(IntoCliError(r)))
    /\ UNCHANGED <<now, cmd, hashes, sys_time, rest, toolVars>>

\* PollReturn reporting what was confirmed so far when a later poll fails
PollReturnPartialSuccess(e) ==
    /\ pc[e] = "poll_await"
    /\ \E r \in PollAnswers(now, DeadlineInFlight(e)) :
          /\ trace' = [trace EXCEPT ![e] = Append(@, PollRetEv(r))]
          /\ IF r = "Confirmed"
             THEN /\ pc' = [pc EXCEPT ![e] = "loop"]
                  /\ UNCHANGED result
             ELSE IF Len(PollCalls(e)) > 1
                  THEN Finish(e, Ok(<<"Added ">> \o FormatU64(Len(PollCalls(e)) - 1)))
                  ELSE Finish(e, Err(IntoCliError(r)))
    /\ UNCHANGED <<now, cmd, hashes, sys_time, rest, toolVars>>

\* PollReturn polling the same hash again after a failure
PollReturnRetry(e) ==
    /\ pc[e] = "poll_await"
    /\ \E r \in PollAnswers(now, DeadlineInFlight(e)) :
          /\ trace' = [trace EXCEPT ![e] = Append(@, PollRetEv(r))]
          /\ pc' = [pc EXCEPT ![e] = "loop"]
          /\ rest' = [rest EXCEPT ![e] =
                         IF r = "Confirmed" THEN @
                         ELSE <<PollCalls(e)[Len(PollCalls(e))].hash>> \o @]
    /\ UNCHANGED <<now, cmd, hashes, sys_time, result, toolVars>>

\* PollReturn starting the command over after a failed poll
PollReturnRestart(e) ==
    /\ pc[e] = "poll_await"
    /\ \E r \in PollAnswers(now, DeadlineInFlight(e)) :
          /\ trace' = [trace EXCEPT ![e] = Append(@, PollRetEv(r))]
          /\ pc' = [pc EXCEPT ![e] = IF r = "Confirmed" THEN "loop" ELSE "start"]
    /\ UNCHANGED <<now, cmd, hashes, sys_time, rest, result, toolVars>>

\* line 56: `.await?` on the poll
PollReturn(e) ==
    /\ pc[e] = "poll_await"
    /\ \E r \in PollAnswers(now, DeadlineInFlight(e)) :
          /\ trace' = [trace EXCEPT ![e] = Append(@, PollRetEv(r))]
          /\ IF r = "Confirmed"
             THEN /\ pc' = [pc EXCEPT ![e] = "loop"]
                  /\ UNCHANGED result
             ELSE Finish(e, Err(IntoCliError(r)))
    /\ UNCHANGED <<now, cmd, hashes, sys_time, rest, toolVars>>

\* ReturnSuccess taking an empty list of hashes for a failure
ReturnSuccessEmptyIsError(e) ==
    /\ pc[e] = "loop"
    /\ rest[e] = <<>>
    /\ IF hashes[e] = <<>>
       THEN Finish(e, Err(CliError("UnexpectedError", "no transactions")))
       ELSE Finish(e, Ok(SuccessMessage(cmd[e])))
    /\ UNCHANGED <<now, cmd, hashes, sys_time, rest, trace, toolVars>>

\* ReturnSuccess not waiting for the loop to be exhausted
ReturnSuccessEarly(e) ==
    /\ pc[e] = "loop"
    /\ Finish(e, Ok(SuccessMessage(cmd[e])))
    /\ UNCHANGED <<now, cmd, hashes, sys_time, rest, trace, toolVars>>

\* lines 58-61: the loop is exhausted, return the success message
ReturnSuccess(e) ==
    /\ pc[e] = "loop"
    /\ rest[e] = <<>>
    /\ Finish(e, Ok(SuccessMessage(cmd[e])))
    /\ UNCHANGED <<now, cmd, hashes, sys_time, rest, trace, toolVars>>

FundAccountStep(e) ==
    \/ CallFaucet(e)
    \/ FaucetReturn(e)
    \/ ComputeDeadline(e)
    \/ BuildClient(e)
    \/ CallPoll(e)
    \/ PollReturn(e)
    \/ ReturnSuccess(e)

\* the wall clock advances by a second
Tick ==
    /\ now < MaxNow
    /\ now' = now + 1
    /\ UNCHANGED <<execVars, toolVars>>

----------------------------------------------------------------------------
(* Tool::execute *)

Variants ==
    {"Account", "Config", "Genesis", "Governance", "Info", "Init", "Key", "Move", "Node"}

\* lines 26-43: the type of the value each variant carries
PayloadType(v) ==
    CASE v = "Account" -> "AccountTool"
      [] v = "Config" -> "ConfigTool"
      [] v = "Genesis" -> "GenesisTool"
      [] v = "Governance" -> "GovernanceTool"
      [] v = "Info" -> "InfoTool"
      [] v = "Init" -> "InitTool"
      [] v = "Key" -> "KeyTool"
      [] v = "Move" -> "MoveTool"
      [] v = "Node" -> "NodeTool"

\* the methods of CliCommand and of the sub-tools the arms call
Methods == {"execute", "execute_serialized", "execute_serialized_success"}

\* no arm selected yet
NoPath == <<"none", "none">>

\* ToolPath with the Governance arm calling into the genesis tool
ToolPathMisrouted(v) ==
    CASE v = "Account" -> <<"AccountTool", "execute">>
      [] v = "Config" -> <<"ConfigTool", "execute">>
      [] v = "Genesis" -> <<"GenesisTool", "execute">>
      [] v = "Governance" -> <<"GenesisTool", "execute">>
      [] v = "Info" -> <<"InfoTool", "execute_serialized">>
      [] v = "Init" -> <<"InitTool", "execute_serialized_success">>
      [] v = "Key" -> <<"KeyTool", "execute">>
      [] v = "Move" -> <<"MoveTool", "execute">>
      [] v = "Node" -> <<"NodeTool", "execute">>

\* lines 48-59: the match arm of each variant, as the receiver's type and the
\* method called on it
ToolPath(v) ==
    CASE v = "Account" -> <<"AccountTool", "execute">>
      [] v = "Config" -> <<"ConfigTool", "execute">>
      [] v = "Genesis" -> <<"GenesisTool", "execute">>
      [] v = "Governance" -> <<"GovernanceTool", "execute">>
      [] v = "Info" -> <<"InfoTool", "execute_serialized">>
      [] v = "Init" -> <<"InitTool", "execute_serialized_success">>
      [] v = "Key" -> <<"KeyTool", "execute">>
      [] v = "Move" -> <<"MoveTool", "execute">>
      [] v = "Node" -> <<"NodeTool", "execute">>

\* CliCommand::execute_serialized: the payload is put in the uniform form, an
\* error keeps its classification
Serialize(r) == IF IsOk(r) THEN Ok(<<"Result", r.value>>) ELSE r

\* results the sub-tools other than `account fund` can produce
SubtoolResults ==
    {Ok(<<"Result", <<"Success">>>>), Err(CliError("TransportError", "rest")),
     Err(CliError("UnexpectedError", "SystemTimeError")),
     Err(CliError("CommandArgumentError", "rest url"))}

(* InfoTool::execute *)

\* the characters of the keys, in byte order
Alphabet ==
    <<"_", "a", "b", "c", "d", "e", "f", "g", "h", "i", "j", "k", "l", "m",
      "n", "o", "p", "q", "r", "s", "t", "u", "v", "w", "x", "y", "z">>

CharCode(ch) == CHOOSE i \in 1..Len(Alphabet) : Alphabet[i] = ch

\* Ord for String: the byte-wise lexicographic order, on strings given as
\* their sequences of characters
RECURSIVE StrLess(_, _)
StrLess(a, b) ==
    IF b = <<>> THEN FALSE
    ELSE IF a = <<>> THEN TRUE
    ELSE IF Head(a) = Head(b) THEN StrLess(Tail(a), Tail(b))
    ELSE CharCode(Head(a)) < CharCode(Head(b))

KeyCommitHash ==
    <<"b", "u", "i", "l", "d", "_", "c", "o", "m", "m", "i", "t", "_", "h", "a", "s", "h">>

KeyOs == <<"b", "u", "i", "l", "d", "_", "o", "s">>

KeyPkgVersion ==
    <<"b", "u", "i", "l", "d", "_", "p", "k", "g", "_", "v", "e", "r", "s", "i", "o", "n">>

\* the key/value pairs collect_build_information!() produces
BuildInformation ==
    {[key |-> KeyPkgVersion, value |-> "0.2.0"],
     [key |-> KeyCommitHash, value |-> "abc123"],
     [key |-> KeyOs, value |-> "linux"]}

\* the orders in which the collector can insert its pairs
InsertionOrders ==
    {o \in [1..Cardinality(BuildInformation) -> BuildInformation] :
        \A i, j \in DOMAIN o : i # j => o[i] # o[j]}

\* a map that keeps its pairs in insertion order
VecPush(map, pair) == Append(map, pair)

\* BTreeMap::insert: the map is the sequence of its pairs in ascending key
\* order; a pair with a key already present replaces the old one
BTreeInsert(map, pair) ==
    LET below == SelectSeq(map, LAMBDA q : StrLess(q.key, pair.key))
        above == SelectSeq(map, LAMBDA q : StrLess(pair.key, q.key))
    IN  below \o <<pair>> \o above

\* the BTreeMap after the pairs of `order` have been inserted, first to last
RECURSIVE Collect(_)
Collect(order) ==
    IF order = <<>> THEN <<>>
    ELSE BTreeInsert(Collect(SubSeq(order, 1, Len(order) - 1)), order[Len(order)])

\* lines 75-79: Ok(collect_build_information!())
InfoToolExecute(order) == Ok(Collect(order))

\* what the call of the selected arm can return
ArmResults(v) ==
    IF v = "Info" THEN {Serialize(InfoToolExecute(o)) : o \in InsertionOrders}
    ELSE SubtoolResults

\* AccountTool::execute runs the FundAccount command (`account fund`)
RunsFundAccount(v) == v = "Account"

\* lines 48-59, up to the `.await`: the match selects the variant's arm and
\* calls it; the Account arm runs the FundAccount command
Dispatch ==
    /\ tpc = "start"
    /\ path' = ToolPath(tool)
    /\ tpc' = "await"
    /\ IF RunsFundAccount(tool)
       THEN pc' = [pc EXCEPT !["main"] = "start"]
       ELSE UNCHANGED pc
    /\ UNCHANGED <<now, tool, variantResult, toolResult,
                   cmd, hashes, sys_time, rest, result, trace>>

\* ToolResult rewrapping every error as an unexpected one
ToolResultTranslated(v, r) ==
    IF IsErr(r) THEN Err(CliError("UnexpectedError", r.error.class)) ELSE r

\* the value of the match expression, given what the arm's call returned
ToolResult(v, r) == r

\* lines 48-60: the arm's call returns and Tool::execute returns its value
ToolReturn ==
    /\ tpc = "await"
    /\ \E r \in (IF RunsFundAccount(tool)
                 THEN {Serialize(result["main"])}
                 ELSE ArmResults(tool)) :
          /\ RunsFundAccount(tool) => pc["main"] = "done"
          /\ variantResult' = r
          /\ toolResult' = ToolResult(tool, r)
    /\ tpc' = "done"
    /\ UNCHANGED <<now, tool, path, execVars>>

----------------------------------------------------------------------------
(* Specification: one Tool::execute call *)

Init ==
    /\ now \in {-1, 0}
    /\ tool \in Variants
    /\ tpc = "start"
    /\ path = NoPath
    /\ variantResult = Pending
    /\ toolResult = Pending
    /\ cmd \in {[e \in Execs |-> IF e = "main" /\ tool = "Account" THEN c ELSE NoCommand] :
                    c \in Commands}
    /\ pc = [e \in Execs |-> "idle"]
    /\ hashes = [e \in Execs |-> <<>>]
    /\ sys_time = [e \in Execs |-> 0]
    /\ rest = [e \in Execs |-> <<>>]
    /\ result = [e \in Execs |-> Pending]
    /\ trace = [e \in Execs |-> <<>>]

Next ==
    \/ Dispatch
    \/ ToolReturn
    \/ FundAccountStep("main")
    \/ Tick

Spec == Init /\ [][Next]_vars

\* One Tool::execute call whose task is always run on and whose network calls
\* always return: no step that stays possible is put off for ever.
Fairness ==
    /\ WF_vars(Dispatch)
    /\ WF_vars(ToolReturn)
    /\ WF_vars(CallFaucet("main"))
    /\ WF_vars(FaucetReturn("main"))
    /\ WF_vars(ComputeDeadline("main"))
    /\ WF_vars(BuildClient("main"))
    /\ WF_vars(CallPoll("main"))
    /\ WF_vars(PollReturn("main"))
    /\ WF_vars(ReturnSuccess("main"))

SpecFair == Init /\ [][Next]_vars /\ Fairness

----------------------------------------------------------------------------
(* Specification: a host process running FundAccount commands concurrently *)

\* the host's clock is followed up to this second
HostMaxNow == 1

\* the commands the host runs: one per execution
HostCommands ==
    {f \in [Execs -> Commands] :
        /\ f["main"].account = 2748 /\ f["main"].num_coins = 100
        /\ f["other"].account = 1 /\ f["other"].num_coins = 0}

HostInit ==
    /\ now = 0
    /\ tool = "Account"
    /\ tpc = "start"
    /\ path = NoPath
    /\ variantResult = Pending
    /\ toolResult = Pending
    /\ cmd \in HostCommands
    /\ pc = [e \in Execs |-> "start"]
    /\ hashes = [e \in Execs |-> <<>>]
    /\ sys_time = [e \in Execs |-> 0]
    /\ rest = [e \in Execs |-> <<>>]
    /\ result = [e \in Execs |-> Pending]
    /\ trace = [e \in Execs |-> <<>>]

HostTick ==
    /\ now < HostMaxNow
    /\ now' = now + 1
    /\ UNCHANGED <<execVars, toolVars>>

HostNext ==
    \/ \E e \in Execs : FundAccountStep(e)
    \/ HostTick

SpecHost == HostInit /\ [][HostNext]_vars

----------------------------------------------------------------------------
(* Properties of FundAccount::execute *)

\* the positions of trace[e] holding an event whose op is in ops
Positions(e, ops) == {k \in 1..Len(trace[e]) : trace[e][k].op \in ops}

\* the execution has returned an error of this classification
FailedWith(e, class) ==
    pc[e] = "done" /\ IsErr(result[e]) /\ result[e].error.class = class

\* C1: the hashes polled so far are a prefix of the sequence the faucet
\* returned: they are polled in the order returned, none skipped, none twice.
C1_PollsInReturnedOrder ==
    \A e \in Execs : IsPrefix(Polled(e), hashes[e])

\* a two-hash response, in either order, polled to the end
C1_Witness ==
    /\ hashes["main"] = <<"T2", "T1">>
    /\ Polled("main") = <<"T2", "T1">>

\* C2: the clock is read at most once per execution, before any poll, and
\* every poll call carries that reading plus 10 as its deadline.
C2_DeadlineComputedOnce ==
    \A e \in Execs :
        /\ Len(ClockReads(e)) <= 1
        /\ \A k \in Positions(e, {"poll_call"}) :
              /\ \E j \in Positions(e, {"clock"}) : j < k
              /\ trace[e][k].deadline = ClockReads(e)[1].reading + Grace
              /\ trace[e][k].deadline = sys_time[e]

\* the second poll is in flight and the clock has advanced since the deadline
\* was computed
C2_Witness ==
    /\ Len(PollCalls("main")) = 2
    /\ pc["main"] = "poll_await"
    /\ now >= ClockReads("main")[1].reading + 3

\* C3: a poll that returns a timeout is the last event of the execution, which
\* has failed with TimeoutError, so no later hash is polled; and a first poll
\* issued when the deadline has already passed returns nothing but a timeout,
\* leaving exactly one poll call.
C3_TimeoutAbandonsTheRest ==
    \A e \in Execs :
        /\ \A k \in Positions(e, {"poll_ret"}) :
              trace[e][k].out = "Timeout" =>
                  /\ k = Len(trace[e])
                  /\ FailedWith(e, "TimeoutError")
        /\ \A k \in Positions(e, {"poll_call"}) :
              ((\A j \in Positions(e, {"poll_call"}) : k <= j)
                  /\ trace[e][k].expired /\ k < Len(trace[e])) =>
                  /\ trace[e][k + 1].out = "Timeout"
                  /\ Len(PollCalls(e)) = 1

\* two hashes returned, the deadline passed before the first poll was issued,
\* and the execution is over
C3_Witness ==
    /\ Len(hashes["main"]) = 2
    /\ Len(PollCalls("main")) = 1
    /\ PollCalls("main")[1].expired
    /\ FailedWith("main", "TimeoutError")
\* the faucet request of execution e has returned successfully
FaucetSucceeded(e) ==
    \E k \in Positions(e, {"faucet_ret"}) : trace[e][k].out = "Ok"

\* every poll of execution e that has returned has returned confirmed
NoPollFailed(e) ==
    \A k \in Positions(e, {"poll_ret"}) : trace[e][k].out = "Confirmed"

\* the clock read and the construction of the REST client both succeeded
DeadlineAndClientOk(e) ==
    /\ Len(ClockReads(e)) = 1
    /\ ClockReads(e)[1].reading >= 0
    /\ HasRestUrl(cmd[e].profile)

\* C4 as stated: once the faucet has returned zero hashes the execution ends
\* in the success message for its own num_coins and address, with no poll.
C4_EmptySucceeds ==
    \A e \in Execs :
        (FaucetSucceeded(e) /\ hashes[e] = <<>> /\ pc[e] = "done") =>
            /\ result[e] = Ok(SuccessMessage(cmd[e]))
            /\ PollCalls(e) = <<>>

\* C4 amended: once the faucet has returned zero hashes no poll is ever made,
\* and if the clock read and the REST client construction succeed the
\* execution ends in the success message for its own num_coins and address;
\* otherwise it ends in the error of the step that failed.
C4_EmptySucceedsIfClientBuilt ==
    \A e \in Execs :
        (FaucetSucceeded(e) /\ hashes[e] = <<>>) =>
            /\ PollCalls(e) = <<>>
            /\ pc[e] = "done" =>
                  IF DeadlineAndClientOk(e)
                  THEN result[e] = Ok(SuccessMessage(cmd[e]))
                  ELSE \/ FailedWith(e, "UnexpectedError")
                       \/ FailedWith(e, "CommandArgumentError")

\* zero hashes returned, the execution over and successful
C4_Witness ==
    /\ FaucetSucceeded("main")
    /\ hashes["main"] = <<>>
    /\ pc["main"] = "done"
    /\ IsOk(result["main"])
    /\ cmd["main"].num_coins = 100

\* C5: a poll that returns a timeout or a failure ends the execution in that
\* very error, however many earlier polls were confirmed: the result is never
\* a success message.
C5_NoPartialSuccess ==
    \A e \in Execs :
        \A k \in Positions(e, {"poll_ret"}) :
            /\ trace[e][k].out = "Timeout" => FailedWith(e, "TimeoutError")
            /\ trace[e][k].out = "TransportError" => FailedWith(e, "TransportError")
            /\ trace[e][k].out # "Confirmed" => ~IsOk(result[e])

\* T1 confirmed, then T2 timed out
C5_Witness ==
    /\ Polled("main") = <<"T1", "T2">>
    /\ Len(trace["main"]) = 7
    /\ trace["main"][5].op = "poll_ret" /\ trace["main"][5].out = "Confirmed"
    /\ trace["main"][7].op = "poll_ret" /\ trace["main"][7].out = "Timeout"
    /\ pc["main"] = "done"

\* "Added 100 coins to account 0xABC"
Added100To0xABC ==
    <<"Added ", "1", "0", "0", " coins to account ", "0x", "A", "B", "C">>

\* C6 as stated: with a faucet and a poller that never fail, the execution
\* ends in the message "Added {num_coins} coins to account {address}".
C6_SuccessMessage ==
    \A e \in Execs :
        (pc[e] = "done" /\ FaucetSucceeded(e) /\ NoPollFailed(e)) =>
            result[e] = Ok(<<"Added ">> \o FormatU64(cmd[e].num_coins)
                              \o <<" coins to account ">> \o FormatAddress(cmd[e].account))

\* C6 amended: with a faucet and a poller that never fail, and the clock read
\* and the REST client construction succeeding, the execution ends in the
\* message "Added {num_coins} coins to account {address}", for any number of
\* hashes; for 100 coins and address 0xABC it is "Added 100 coins to account
\* 0xABC".
C6_SuccessMessageIfClientBuilt ==
    \A e \in Execs :
        (pc[e] = "done" /\ FaucetSucceeded(e) /\ NoPollFailed(e) /\ DeadlineAndClientOk(e)) =>
            /\ result[e] = Ok(<<"Added ">> \o FormatU64(cmd[e].num_coins)
                                 \o <<" coins to account ">> \o FormatAddress(cmd[e].account))
            /\ (cmd[e].num_coins = 100 /\ cmd[e].account = 2748) =>
                  result[e] = Ok(Added100To0xABC)

\* address 0xABC, 100 coins, hashes [T1, T2], both confirmed
C6_Witness ==
    /\ cmd["main"].account = 2748
    /\ cmd["main"].num_coins = 100
    /\ hashes["main"] = <<"T1", "T2">>
    /\ Polled("main") = <<"T1", "T2">>
    /\ NoPollFailed("main")
    /\ pc["main"] = "done"

\* C7: a faucet failure is the last event of the execution, which has failed
\* with it and polled nothing; a poll transport failure is the last event of
\* the execution, which has failed with it, so that no later hash is polled.
C7_ErrorsAbort ==
    \A e \in Execs :
        /\ \A k \in Positions(e, {"faucet_ret"}) :
              trace[e][k].out # "Ok" =>
                  /\ k = Len(trace[e])
                  /\ result[e] = Err(CliError("TransportError", "faucet"))
                  /\ pc[e] = "done"
                  /\ PollCalls(e) = <<>>
        /\ \A k \in Positions(e, {"poll_ret"}) :
              trace[e][k].out = "TransportError" =>
                  /\ k = Len(trace[e])
                  /\ result[e] = Err(CliError("TransportError", "rest"))
                  /\ pc[e] = "done"

\* two hashes returned, the poll of the first failed in transport
C7_Witness ==
    /\ Len(hashes["main"]) = 2
    /\ Len(PollCalls("main")) = 1
    /\ FailedWith("main", "TransportError")

\* C8: at every point of an execution at most one network call is in flight,
\* and a poll is issued only when the event before it is the clock read
\* (first poll, the faucet request having returned) or the confirmed return
\* of the previous poll.
C8_Sequential ==
    \A e \in Execs :
        /\ \A n \in 0..Len(trace[e]) : InFlightAt(e, n) \in {0, 1}
        /\ \A k \in Positions(e, {"poll_call"}) :
              /\ InFlightAt(e, k - 1) = 0
              /\ \/ trace[e][k - 1].op = "clock"
                 \/ trace[e][k - 1].op = "poll_ret" /\ trace[e][k - 1].out = "Confirmed"

\* the second of two polls is in flight
C8_Witness ==
    /\ Len(PollCalls("main")) = 2
    /\ pc["main"] = "poll_await"
    /\ InFlight("main") = 1

\* C9: an execution issues at most one faucet request and at most one poll
\* per returned hash, and an execution that has returned issues nothing more.
C9_NoRetry ==
    /\ [](\A e \in Execs :
            /\ Len(FaucetCalls(e)) <= 1
            /\ Len(PollCalls(e)) <= Len(hashes[e])
            /\ IsPrefix(Polled(e), hashes[e])
            /\ IsErr(result[e]) => (pc[e] = "done" /\ InFlight(e) = 0))
    /\ [][\A e \in Execs : pc[e] = "done" => (trace'[e] = trace[e] /\ pc'[e] = "done")]_vars

\* the execution failed on the first of two hashes and the clock moved on
\* afterwards
C9_Witness ==
    /\ Len(hashes["main"]) = 2
    /\ Len(PollCalls("main")) = 1
    /\ IsErr(result["main"])
    /\ now > PollCalls("main")[1].deadline

----------------------------------------------------------------------------
(* Properties of Tool::execute *)

\* C10: what Tool::execute returns is what the selected variant's execution
\* returned, payload or error, unchanged; for the Account variant that is the
\* serialized result of the FundAccount execution, which ran once.
C10_DispatcherForwards ==
    tpc = "done" =>
        /\ toolResult = variantResult
        /\ tool = "Account" =>
              /\ toolResult = Serialize(result["main"])
              /\ Len(FaucetCalls("main")) <= 1

\* the Account variant ended in a timeout, another test of the forwarding
C10_Witness ==
    /\ tpc = "done"
    /\ tool = "Account"
    /\ IsErr(toolResult)
    /\ toolResult.error.class = "TimeoutError"
\* C11: the arm selected for a variant is a call on that variant's own value,
\* every variant has an arm, the arms of two different variants are different
\* calls, and Tool::execute never returns without having taken one.
C11_DispatchOneToOne ==
    /\ tpc = "start" => path = NoPath
    /\ tpc # "start" =>
          /\ path[1] = PayloadType(tool)
          /\ path[2] \in Methods
          /\ path = ToolPath(tool)
    /\ \A v, w \in Variants : v # w => ToolPath(v) # ToolPath(w)
    /\ Cardinality({ToolPath(v) : v \in Variants}) = Cardinality(Variants)

\* the Governance variant has been executed through its own arm
C11_Witness ==
    /\ tool = "Governance"
    /\ tpc = "done"
    /\ path = <<"GovernanceTool", "execute">>
    /\ toolResult # Pending
\* C12: the Info variant always ends in a success whose payload is the same
\* listing whatever the order in which the pairs were collected: the three
\* pairs, in strictly ascending key order.
C12_BuildInfoSorted ==
    (tool = "Info" /\ tpc = "done") =>
        /\ IsOk(toolResult)
        /\ toolResult.value[1] = "Result"
        /\ toolResult.value[2] =
              <<[key |-> KeyCommitHash, value |-> "abc123"],
                [key |-> KeyOs, value |-> "linux"],
                [key |-> KeyPkgVersion, value |-> "0.2.0"]>>
        /\ \A i \in 1..(Len(toolResult.value[2]) - 1) :
              StrLess(toolResult.value[2][i].key, toolResult.value[2][i + 1].key)

\* the Info variant has returned its three pairs
C12_Witness ==
    /\ tool = "Info"
    /\ tpc = "done"
    /\ IsOk(toolResult)
    /\ Len(toolResult.value[2]) = 3
\* the hashes of a sequence
Range(seq) == {seq[i] : i \in 1..Len(seq)}

\* C13: with FundAccount executions interleaved in one process, each polls
\* only hashes its own faucet request returned, in that order, with the
\* deadline it computed from its own clock read; and a step of one execution
\* leaves the hashes, the deadline and the loop state of every other alone.
C13_NothingShared ==
    /\ [](\A e \in Execs :
            /\ IsPrefix(Polled(e), hashes[e])
            /\ \A k \in Positions(e, {"poll_call"}) :
                  /\ trace[e][k].hash \in Range(hashes[e])
                  /\ Len(ClockReads(e)) = 1
                  /\ trace[e][k].deadline = ClockReads(e)[1].reading + Grace)
    /\ [][\A e \in Execs :
            (pc'[e] = pc[e] /\ trace'[e] = trace[e]) =>
                /\ hashes'[e] = hashes[e]
                /\ sys_time'[e] = sys_time[e]
                /\ rest'[e] = rest[e]
                /\ result'[e] = result[e]]_vars

\* both executions are polling, each its own hash with its own deadline
C13_Witness ==
    /\ hashes["main"] = <<"T1">> /\ hashes["other"] = <<"T2">>
    /\ Polled("main") = <<"T1">> /\ Polled("other") = <<"T2">>
    /\ pc["main"] = "poll_await" /\ pc["other"] = "poll_await"
    /\ PollCalls("main")[1].deadline # PollCalls("other")[1].deadline
\* the state of the FundAccount workflow execution e is in
Phase(e) ==
    CASE pc[e] = "idle" -> "NotStarted"
      [] pc[e] \in {"start", "faucet_await"} -> "Requested"
      [] pc[e] \in {"clock", "client"} -> "Submitted"
      [] pc[e] \in {"loop", "poll_await"} -> "Confirming"
      [] pc[e] = "done" /\ IsOk(result[e]) -> "Confirmed"
      [] pc[e] = "done" /\ FailedWith(e, "TimeoutError") -> "TimedOut"
      [] pc[e] = "done" /\ IsErr(result[e]) /\ ~FailedWith(e, "TimeoutError") -> "Failed"

Terminal(e) == Phase(e) \in {"Confirmed", "TimedOut", "Failed"}

\* the transitions of the workflow as the state machine gives them
ChainTransitions ==
    {<<"NotStarted", "Requested">>, <<"Requested", "Submitted">>,
     <<"Submitted", "Confirming">>, <<"Confirming", "Confirmed">>,
     <<"Confirming", "TimedOut">>, <<"Confirming", "Failed">>}

\* a failure before polling has begun
EarlyFailures == {<<"Requested", "Failed">>, <<"Submitted", "Failed">>}

\* an execution that has reached a terminal state does nothing more
TerminalIsFinal(e) ==
    Terminal(e) =>
        /\ pc'[e] = pc[e] /\ result'[e] = result[e] /\ trace'[e] = trace[e]
        /\ hashes'[e] = hashes[e] /\ sys_time'[e] = sys_time[e] /\ rest'[e] = rest[e]

\* C14 as stated: a started execution eventually reaches a terminal state,
\* changes state only along Requested -> Submitted -> Confirming -> terminal,
\* and does nothing once terminal.
C14_ChainOnly ==
    /\ (pc["main"] = "start") ~> Terminal("main")
    /\ [][Phase("main")' # Phase("main") =>
              <<Phase("main"), Phase("main")'>> \in ChainTransitions]_vars
    /\ [][TerminalIsFinal("main")]_vars

\* C14 amended: a started execution eventually reaches a terminal state,
\* changes state only along Requested -> Submitted -> Confirming -> terminal
\* or from Requested or Submitted straight to Failed, and does nothing once
\* terminal.
C14_ChainOrEarlyFailure ==
    /\ (pc["main"] = "start") ~> Terminal("main")
    /\ [][Phase("main")' # Phase("main") =>
              <<Phase("main"), Phase("main")'>> \in ChainTransitions \cup EarlyFailures]_vars
    /\ [][TerminalIsFinal("main")]_vars

\* the execution timed out on the second of two hashes and the clock went on
C14_Witness ==
    /\ Phase("main") = "TimedOut"
    /\ Len(PollCalls("main")) = 2
    /\ now > sys_time["main"]
\* C15: a clock read that fails is the last event of the execution, which has
\* failed with UnexpectedError carrying the description of the clock's error,
\* and has polled nothing.
C15_ClockFailureIsFatal ==
    \A e \in Execs :
        \A k \in Positions(e, {"clock"}) :
            trace[e][k].reading < 0 =>
                /\ k = Len(trace[e])
                /\ pc[e] = "done"
                /\ result[e] = Err(CliError("UnexpectedError", "SystemTimeError"))
                /\ PollCalls(e) = <<>>

\* two hashes returned, then the clock read failed
C15_Witness ==
    /\ Len(hashes["main"]) = 2
    /\ Len(ClockReads("main")) = 1
    /\ ClockReads("main")[1].reading < 0
    /\ FailedWith("main", "UnexpectedError")

\* the poll returns of execution e, in order
PollRets(e) == Select(trace[e], {"poll_ret"})

\* C16: an execution that has returned the success message had its faucet
\* request succeed, polled exactly the returned hashes, one call each, in
\* order, and had every one of those polls confirmed.
C16_SuccessMeansAllConfirmed ==
    \A e \in Execs :
        (pc[e] = "done" /\ IsOk(result[e])) =>
            /\ FaucetSucceeded(e)
            /\ Polled(e) = hashes[e]
            /\ Len(PollCalls(e)) = Len(hashes[e])
            /\ Len(PollRets(e)) = Len(hashes[e])
            /\ NoPollFailed(e)

\* success after two hashes were returned, with the clock past the epoch by
\* then
C16_Witness ==
    /\ pc["main"] = "done"
    /\ IsOk(result["main"])
    /\ hashes["main"] = <<"T1", "T2">>
    /\ Len(PollRets("main")) = 2
    /\ now >= 2

\* the error of a REST client that cannot be built
RestClientError == Err(CliError("CommandArgumentError", "rest url"))

\* C17: an execution fails on the construction of the REST client only
\* after its faucet request has succeeded and its clock has been read, and
\* then has polled nothing; and with a profile that gives no REST URL every
\* execution that gets past the deadline computation ends in that error,
\* whatever the number of hashes, zero included.
C17_ClientBuiltLate ==
    \A e \in Execs :
        /\ result[e] = RestClientError =>
              /\ FaucetSucceeded(e)
              /\ Len(ClockReads(e)) = 1 /\ ClockReads(e)[1].reading >= 0
              /\ sys_time[e] = ClockReads(e)[1].reading + Grace
              /\ PollCalls(e) = <<>>
              /\ pc[e] = "done"
        /\ (~HasRestUrl(cmd[e].profile) /\ pc[e] \in {"loop", "poll_await", "done"}
                /\ FaucetSucceeded(e) /\ Len(ClockReads(e)) = 1
                /\ ClockReads(e)[1].reading >= 0) =>
              /\ result[e] = RestClientError
              /\ PollCalls(e) = <<>>

\* the faucet returned zero hashes and the REST client could not be built
C17_Witness ==
    /\ FaucetSucceeded("main")
    /\ hashes["main"] = <<>>
    /\ result["main"] = RestClientError
    /\ pc["main"] = "done"

\* C18: a faucet request is only ever issued to the URL resolved from the
\* profile; with a profile that gives no faucet URL the execution ends, in
\* its first step, in the resolution's error, with no faucet request, no poll
\* and no clock read.
C18_UrlResolvedFirst ==
    \A e \in Execs :
        /\ \A k \in Positions(e, {"faucet_call"}) :
              /\ HasFaucetUrl(cmd[e].profile)
              /\ trace[e][k].url = FaucetUrl(cmd[e].profile)
        /\ (~HasFaucetUrl(cmd[e].profile) /\ pc[e] \notin {"idle", "start"}) =>
              /\ pc[e] = "done"
              /\ result[e] = Err(CliError("CommandArgumentError", "faucet url"))
              /\ trace[e] = <<>>

\* the resolution failed and the execution is over
C18_Witness ==
    /\ cmd["main"].profile = "nofaucet"
    /\ pc["main"] = "done"
    /\ IsErr(result["main"])
    /\ tpc = "done"

====
